---- MODULE Spec2Model ----
(***************************************************************************)
(* The client-side cart of src/js/main.js: the Cart object (getCart,       *)
(* saveCart, addItem, removeItem, updateQuantity, getTotalQuantity,        *)
(* getSubtotal, updateCartCounter) over the localStorage entry "cart", the *)
(* header badge #cart-count it refreshes, the cart page (renderCartItems,  *)
(* updateCartTotals and the handlers of the rows' controls), the same page *)
(* in two tabs, and the handlers of one tab statement by statement.        *)
(***************************************************************************)
EXTENDS Integers, Sequences, FiniteSets, TLC

(* ------------------------------ bounds --------------------------------- *)

\* longest cart the model lets addItem build
MaxLen == 2
\* largest quantity a call is given and the store is let to hold
MaxQty == 2
\* most feedback timers of one kind pending at a time
MaxTimers == 1

(* --------------------------- JavaScript values ------------------------- *)

\* A quantity as JavaScript holds it: a number, NaN, null or undefined.
Num(n) == [t |-> "num", n |-> n]
NaN == [t |-> "NaN", n |-> 0]
Null == [t |-> "null", n |-> 0]
Undefined == [t |-> "undefined", n |-> 0]

\* The string-typed field of a request that is absent (undefined).
Absent == "<undefined>"

\* ToNumber, as + and <= apply it: null is 0, undefined is NaN.
ToNumber(v) ==
    IF v.t = "num" THEN v
    ELSE IF v.t = "null" THEN Num(0)
    ELSE NaN

\* a + b on quantities.
JSAdd(a, b) ==
    LET x == ToNumber(a)
        y == ToNumber(b)
    IN  IF x.t = "NaN" \/ y.t = "NaN" THEN NaN ELSE Num(x.n + y.n)

\* Truthiness of a quantity: 0, NaN, null and undefined are falsy.
Truthy(v) == v.t = "num" /\ v.n # 0

\* Truthiness of a string: the empty string and undefined are falsy.
StrTruthy(s) == s # "" /\ s # Absent

\* a serialization that also writes null back as 0
JsonQuantity_NullToZero(q) ==
    IF q.t = "NaN" THEN Null ELSE IF q.t = "null" THEN Num(0) ELSE q

\* JSON.stringify then JSON.parse of a quantity: NaN is written as null; a
\* property holding undefined is left out and reads back as undefined.
JsonQuantity(q) == IF q.t = "NaN" THEN Null ELSE q

JsonItem(item) == [item EXCEPT !.quantity = JsonQuantity(@)]

\* JSON.parse(JSON.stringify(cart)).
JsonRoundTrip(cart) == [i \in 1..Len(cart) |-> JsonItem(cart[i])]

(* ------------------------------ inputs --------------------------------- *)

\* the (id, variant) pairs removeItem and updateQuantity are called with:
\* product p1 with an empty variant, the literal "default" or an option
\* label, and product p2
ReqKeys == {<<"p1", "">>, <<"p1", "default">>, <<"p1", "Red">>, <<"p2", "Red">>}

\* those of an addItem request, whose variant may also be absent
AddKeys == ReqKeys \cup {<<"p1", Absent>>}

\* the integer quantities of the model; -1 stands for the negative ones
QuantityRange == -1..MaxQty

\* quantities addItem is given: an integer, or none
AddQuantities == {Undefined} \cup {Num(n) : n \in QuantityRange}

\* quantities updateQuantity is given: an integer, or the NaN that parseInt
\* makes of a field that holds no number
UpdateQuantities == {NaN} \cup {Num(n) : n \in QuantityRange}

\* What the product page shows for each product: name, price and image.
ProductName(id) ==
    CASE id = "p1" -> "Classic Tote"
      [] id = "p2" -> "Evening Clutch"
      [] id = "p3" -> "Minimalist Crossbody"
      [] OTHER -> "Leather Satchel"
ProductPrice(id) ==
    CASE id = "p1" -> "$129.00"
      [] id = "p2" -> "$1,250.50"
      [] id = "p3" -> "$1,250,000.00"
      [] OTHER -> "$10.00"
ProductImage(id) ==
    CASE id = "p1" -> Absent
      [] id = "p2" -> "images/Product 3.jpg"
      [] id = "p3" -> Absent
      [] OTHER -> "images/Product 1.jpg"

Request(id, variant, quantity) ==
    [id |-> id, name |-> ProductName(id), price |-> ProductPrice(id),
     variant |-> variant, image |-> ProductImage(id), quantity |-> quantity]

(* ------------------------------- state --------------------------------- *)

VARIABLES
    store,   \* localStorage entry "cart": [k, items]
    badge,   \* the element #cart-count: [exists, text, display]
    last,    \* the last call: [op, id, variant, quantity, loaded, threw]
    ret,     \* the sequence that call returned
    dom,     \* the cart page: [rows, empty, content, subtotal, total, event]
    tab2,    \* a second tab on the same store: [dom, badge, actor]
    loop     \* the tab's event loop: [page, running, timers, label, serial]

vars == <<store, badge, last, ret, dom, tab2, loop>>

StoreAbsent == [k |-> "absent", items |-> <<>>]
StoreCorrupt == [k |-> "corrupt", items |-> <<>>]
StoreJson(cart) == [k |-> "json", items |-> JsonRoundTrip(cart)]

(* ------------------------------- Cart ---------------------------------- *)

\* getCart: a missing entry is the empty cart, JSON.parse throws on a value
\* that is not JSON.
getCartThrows(st) == st.k = "corrupt"
getCart(st) == IF st.k = "json" THEN st.items ELSE <<>>

\* the key compared by id alone
KeyMatches_IdOnly(item, id, variant) == item.id = id

\* item.id === id && item.variant === variant
KeyMatches(item, id, variant) == item.id = id /\ item.variant = variant

\* cart.find(...): the index of the first match, 0 when there is none.
FindIndex(cart, id, variant) ==
    IF \E i \in 1..Len(cart) : KeyMatches(cart[i], id, variant)
    THEN CHOOSE i \in 1..Len(cart) :
            /\ KeyMatches(cart[i], id, variant)
            /\ \A j \in 1..(i - 1) : ~KeyMatches(cart[j], id, variant)
    ELSE 0

\* cart.filter(item => !(key matches)), walking the array front to back.
RECURSIVE FilterOut(_, _, _)
FilterOut(cart, id, variant) ==
    IF cart = <<>> THEN <<>>
    ELSE IF KeyMatches(Head(cart), id, variant)
         THEN FilterOut(Tail(cart), id, variant)
         ELSE <<Head(cart)>> \o FilterOut(Tail(cart), id, variant)

\* cart.reduce((total, item) => total + item.quantity, 0)
RECURSIVE SumQuantity(_, _)
SumQuantity(cart, total) ==
    IF cart = <<>> THEN total
    ELSE SumQuantity(Tail(cart), JSAdd(total, Head(cart).quantity))

getTotalQuantity(st) == SumQuantity(getCart(st), Num(0))

\* The characters of the price strings the pages show.
PriceChars(price) ==
    CASE price = "$129.00" -> <<"$", "1", "2", "9", ".", "0", "0">>
      [] price = "$1,250.50" -> <<"$", "1", ",", "2", "5", "0", ".", "5", "0">>
      [] price = "$1,250,000.00" ->
            <<"$", "1", ",", "2", "5", "0", ",", "0", "0", "0", ".", "0", "0">>
      [] OTHER -> <<"$", "1", "0", ".", "0", "0">>

Digits == <<"0", "1", "2", "3", "4", "5", "6", "7", "8", "9">>
IsDigit(c) == \E d \in 1..Len(Digits) : Digits[d] = c
DigitValue(c) == (CHOOSE d \in 1..Len(Digits) : Digits[d] = c) - 1

\* String.replace(c, '') with a string pattern: only the first occurrence of
\* c is taken out.
RECURSIVE ReplaceFirst(_, _)
ReplaceFirst(chars, c) ==
    IF chars = <<>> THEN <<>>
    ELSE IF Head(chars) = c THEN Tail(chars)
    ELSE <<Head(chars)>> \o ReplaceFirst(Tail(chars), c)

\* the digits chars starts with
RECURSIVE LeadingDigits(_)
LeadingDigits(chars) ==
    IF chars = <<>> \/ ~IsDigit(Head(chars)) THEN <<>>
    ELSE <<Head(chars)>> \o LeadingDigits(Tail(chars))

\* the number a sequence of digits writes, after the digits read so far
RECURSIVE DigitsValue(_, _)
DigitsValue(digits, read) ==
    IF digits = <<>> THEN read
    ELSE DigitsValue(Tail(digits), 10 * read + DigitValue(Head(digits)))

\* the fraction digits as hundredths (the prices have at most two)
Hundredths(digits) ==
    IF Len(digits) = 0 THEN 0
    ELSE IF Len(digits) = 1 THEN 10 * DigitValue(digits[1])
    ELSE 10 * DigitValue(digits[1]) + DigitValue(digits[2])

\* parseFloat: the longest prefix that is a decimal number, whatever follows
\* it; NaN when there is none. Amounts of money are held in cents.
parseFloat(chars) ==
    LET whole == LeadingDigits(chars)
        rest == SubSeq(chars, Len(whole) + 1, Len(chars))
        fraction == IF rest # <<>> /\ Head(rest) = "."
                    THEN LeadingDigits(Tail(rest)) ELSE <<>>
    IN  IF whole = <<>> /\ fraction = <<>> THEN NaN
        ELSE Num(100 * DigitsValue(whole, 0) + Hundredths(fraction))

\* a * b, of a price in cents and a quantity
JSMul(a, b) ==
    IF ToNumber(a).t = "NaN" \/ ToNumber(b).t = "NaN" THEN NaN
    ELSE Num(ToNumber(a).n * ToNumber(b).n)

\* the price strings of the products
Prices == {ProductPrice(id) : id \in {"p1", "p2", "p3", "p4"}}

\* parseFloat(price.replace('$', '').replace(',', '')), for each of them
ParsedPrice ==
    [price \in Prices |->
        parseFloat(ReplaceFirst(ReplaceFirst(PriceChars(price), "$"), ","))]

ItemPrice(item) == ParsedPrice[item.price]

\* cart.reduce((total, item) => total + price * item.quantity, 0)
RECURSIVE SumPrices(_, _)
SumPrices(cart, total) ==
    IF cart = <<>> THEN total
    ELSE SumPrices(Tail(cart), JSAdd(total, JSMul(ItemPrice(Head(cart)), Head(cart).quantity)))

getSubtotal(st) == SumPrices(getCart(st), Num(0))

\* total > 0
GreaterThanZero(v) == ToNumber(v).t = "num" /\ ToNumber(v).n > 0

\* updateCartCounter: nothing without the element; else the text is the
\* total and the element is shown when the total is > 0.
updateCartCounter(bd, st) ==
    IF ~bd.exists THEN bd
    ELSE [exists |-> TRUE,
          text |-> getTotalQuantity(st),
          display |-> IF GreaterThanZero(getTotalQuantity(st)) THEN "flex" ELSE "none"]

\* saveCart: writes the serialized cart, then refreshes the counter.
saveCartStore(cart) == StoreJson(cart)
saveCartBadge(bd, cart) == updateCartCounter(bd, saveCartStore(cart))

\* existingItem.quantity += product.quantity
MergedQuantity(old, requested) == JSAdd(old, requested)

\* the object addItem pushes
NewLineItem(product) ==
    [id |-> product.id,
     name |-> product.name,
     price |-> product.price,
     variant |-> IF StrTruthy(product.variant) THEN product.variant ELSE "default",
     image |-> IF StrTruthy(product.image) THEN product.image ELSE "",
     quantity |-> IF Truthy(product.quantity) THEN product.quantity ELSE Num(1)]

\* unshift in place of push
Push_AtFront(cart, item) == <<item>> \o cart

\* cart.push(item)
Push(cart, item) == Append(cart, item)

\* addItem: the cart it saves and returns, from the store it loads
addItemCart(st, product) ==
    LET cart == getCart(st)
        i == FindIndex(cart, product.id, product.variant)
    IN  IF i # 0
        THEN [cart EXCEPT ![i].quantity = MergedQuantity(@, product.quantity)]
        ELSE Push(cart, NewLineItem(product))

\* removeItem: the cart it saves and returns, from the store it loads
removeItemCart(st, id, variant) == FilterOut(getCart(st), id, variant)

\* quantity < 0 in place of quantity <= 0
NotPositive_Strict(q) == ToNumber(q).t = "num" /\ ToNumber(q).n < 0

\* quantity <= 0
NotPositive(q) == ToNumber(q).t = "num" /\ ToNumber(q).n <= 0

\* item.quantity += quantity in place of item.quantity = quantity
UpdatedQuantity_Incremented(old, quantity) == JSAdd(old, quantity)

\* item.quantity = quantity
UpdatedQuantity(old, quantity) == quantity

\* updateQuantity: the cart it saves and returns, from the store it loads; a
\* quantity <= 0 for an item that is there hands over to removeItem, which
\* loads the store again.
updateQuantityCart(st, id, variant, quantity) ==
    LET cart == getCart(st)
        i == FindIndex(cart, id, variant)
    IN  IF i = 0 THEN cart
        ELSE IF NotPositive(quantity)
             THEN removeItemCart(st, id, variant)
             ELSE [cart EXCEPT ![i].quantity = UpdatedQuantity(@, quantity)]

(* ----------------------------- cart page ------------------------------- *)

\* item.name.includes(word), for the names the product pages show
NameIncludes(name, word) ==
    <<name, word>> \in {<<"Evening Clutch", "Evening">>, <<"Evening Clutch", "Clutch">>,
                        <<"Minimalist Crossbody", "Minimalist">>,
                        <<"Minimalist Crossbody", "Crossbody">>}

\* the src of a row's image: the name's keyword first, then item.image, then
\* the first product's picture
productImage(item) ==
    IF NameIncludes(item.name, "Minimalist") \/ NameIncludes(item.name, "Crossbody")
    THEN "assets/images/Product 2.jpg"
    ELSE IF NameIncludes(item.name, "Clutch") \/ NameIncludes(item.name, "Evening")
    THEN "assets/images/Product 3.jpg"
    ELSE IF NameIncludes(item.name, "Backpack") \/ NameIncludes(item.name, "Weekend")
    THEN "assets/images/Product 4.jpg"
    ELSE IF StrTruthy(item.image) THEN item.image
    ELSE "assets/images/Product 1.jpg"

\* '$' + amount.toFixed(2): the amount in cents, or NaN
Money(amount) == [t |-> "money", amount |-> amount]

\* a text the page's markup holds, before any script wrote it
MarkupText == [t |-> "markup", amount |-> NaN]

\* the row renderCartItems builds for a line item: the data attributes of its
\* controls, the texts, the image, the quantity field's value and the line
\* total
Row(item) ==
    [id |-> item.id, variant |-> item.variant, name |-> item.name,
     price |-> item.price, image |-> productImage(item),
     value |-> item.quantity,
     total |-> Money(JSMul(ItemPrice(item), item.quantity))]

\* updateCartTotals: both texts are the formatted subtotal
updateCartTotals(d, st) ==
    [d EXCEPT !.subtotal = Money(getSubtotal(st)), !.total = Money(getSubtotal(st))]

\* cart.length <= 1 in place of cart.length === 0
IsEmptyCart_OrSingle(cart) == Len(cart) <= 1

\* cart.length === 0
IsEmptyCart(cart) == Len(cart) = 0

\* renderCartItems on the page d: an empty cart only swaps the panels and
\* returns; any other cart swaps them the other way, replaces the rows and
\* updates the totals.
renderCartItems(d, st) ==
    LET cart == getCart(st)
    IN  IF IsEmptyCart(cart)
        THEN [d EXCEPT !.empty = "block", !.content = "none"]
        ELSE updateCartTotals(
                [d EXCEPT !.empty = "none", !.content = "block",
                          !.rows = [i \in 1..Len(cart) |-> Row(cart[i])]], st)

\* parseInt(value, 10) of a quantity field: a field that shows no number
\* gives NaN
ParseInt(v) == IF v.t = "num" THEN v ELSE NaN

\* document.querySelector('.cart-item .quantity-input[data-item-id][data-variant]'):
\* the value of the first row's field with these attributes
RowInput(d, id, variant) ==
    LET first == CHOOSE i \in 1..Len(d.rows) :
                    /\ d.rows[i].id = id /\ d.rows[i].variant = variant
                    /\ \A j \in 1..(i - 1) :
                          ~(d.rows[j].id = id /\ d.rows[j].variant = variant)
    IN  d.rows[first].value

\* parseInt(this.value, 10) || 1, then at least 1
EditedQuantity(typed) ==
    LET parsed == IF Truthy(ParseInt(typed)) THEN ParseInt(typed) ELSE Num(1)
    IN  IF parsed.n < 1 THEN Num(1) ELSE parsed

\* currentQty > 0 in place of currentQty > 1
MoreThanOne_Zero(q) == q.t = "num" /\ q.n > 0

\* currentQty > 1
MoreThanOne(q) == q.t = "num" /\ q.n > 1

\* currentQty + 1
Increased(q) == JSAdd(q, Num(1))

\* The Cart call a control of row i makes, from the page d it is on: the
\* decrease and increase buttons read the field, the field's change handler
\* reads what was typed, the remove button reads nothing.
CartCall(op, id, variant, quantity) ==
    [op |-> op, id |-> id, variant |-> variant, quantity |-> quantity]

RowCall(d, kind, i, typed) ==
    LET id == d.rows[i].id
        variant == d.rows[i].variant
        currentQty == ParseInt(RowInput(d, id, variant))
    IN  CASE kind = "decrease" ->
                IF MoreThanOne(currentQty)
                THEN CartCall("updateQuantity", id, variant, Num(currentQty.n - 1))
                ELSE CartCall("none", id, variant, Undefined)
          [] kind = "increase" ->
                CartCall("updateQuantity", id, variant, Increased(currentQty))
          [] kind = "change" ->
                CartCall("updateQuantity", id, variant, EditedQuantity(typed))
          [] OTHER -> CartCall("removeItem", id, variant, Undefined)

\* the cart that call saves, from the store it loads
CallCart(st, c) ==
    IF c.op = "removeItem"
    THEN removeItemCart(st, c.id, c.variant)
    ELSE updateQuantityCart(st, c.id, c.variant, c.quantity)

(* ------------------------------ actions -------------------------------- *)

\* The model keeps the stored quantities and the cart's length in bounds.
InBounds(cart) ==
    /\ Len(cart) <= MaxLen
    /\ \A i \in 1..Len(cart) :
          cart[i].quantity.t = "num" => cart[i].quantity.n \in QuantityRange

\* A call, its arguments, the length of the cart it loaded and whether it threw.
Call(op, id, variant, quantity, loaded, threw) ==
    [op |-> op, id |-> id, variant |-> variant, quantity |-> quantity,
     loaded |-> loaded, threw |-> threw]

\* A call that throws in getCart changes nothing.
Thrown(op, id, variant, quantity) ==
    /\ last' = Call(op, id, variant, quantity, 0, TRUE)
    /\ ret' = <<>>
    /\ UNCHANGED <<store, badge>>

\* A mutation that loaded `cart` and saves and returns `result`.
Saved(op, id, variant, quantity, cart, result) ==
    /\ InBounds(result)
    /\ last' = Call(op, id, variant, quantity, Len(cart), FALSE)
    /\ ret' = result
    /\ store' = saveCartStore(result)
    /\ badge' = saveCartBadge(badge, result)

AddItem(id, variant, quantity) ==
    /\ IF getCartThrows(store)
       THEN Thrown("addItem", id, variant, quantity)
       ELSE Saved("addItem", id, variant, quantity, getCart(store),
                  addItemCart(store, Request(id, variant, quantity)))
    /\ UNCHANGED <<dom, tab2, loop>>

RemoveItem(id, variant) ==
    /\ IF getCartThrows(store)
       THEN Thrown("removeItem", id, variant, Undefined)
       ELSE Saved("removeItem", id, variant, Undefined, getCart(store),
                  removeItemCart(store, id, variant))
    /\ UNCHANGED <<dom, tab2, loop>>

UpdateQuantity(id, variant, quantity) ==
    /\ IF getCartThrows(store)
       THEN Thrown("updateQuantity", id, variant, quantity)
       ELSE Saved("updateQuantity", id, variant, quantity, getCart(store),
                  updateQuantityCart(store, id, variant, quantity))
    /\ UNCHANGED <<dom, tab2, loop>>

\* init on a page without the cart list: the counter is refreshed.
PageInit ==
    /\ IF getCartThrows(store) /\ badge.exists
       THEN Thrown("init", "", "", Undefined)
       ELSE /\ last' = Call("init", "", "", Undefined, Len(getCart(store)), FALSE)
            /\ ret' = <<>>
            /\ badge' = updateCartCounter(badge, store)
            /\ UNCHANGED store
    /\ UNCHANGED <<dom, tab2, loop>>

NoCall == Call("none", "", "", Undefined, 0, FALSE)

\* the badge as the page's markup has it, before any script ran
BadgeMarkup(exists) ==
    [exists |-> exists, text |-> [t |-> "markup", n |-> 0], display |-> "css"]

\* the cart page's elements on a page that is not the cart page
NoEvent == [kind |-> "none", row |-> 0, op |-> "none"]

NoCartPage ==
    [rows |-> <<>>, empty |-> "none", content |-> "none",
     subtotal |-> MarkupText, total |-> MarkupText, event |-> NoEvent]

\* no second tab is open; actor is the tab whose handler ran last
NoSecondTab == [dom |-> NoCartPage, badge |-> BadgeMarkup(FALSE), actor |-> 0]

\* the event loop at rest: no handler running, no timer pending; serial is
\* the store that the events dispatched so far give when each is applied whole
NoLoop ==
    [page |-> "none", running |-> <<>>, timers |-> [icon |-> 0, label |-> 0],
     label |-> "Add to Cart", serial |-> StoreAbsent]

Init ==
    /\ store = StoreAbsent
    /\ badge \in {BadgeMarkup(TRUE), BadgeMarkup(FALSE)}
    /\ last = NoCall
    /\ ret = <<>>
    /\ dom = NoCartPage
    /\ tab2 = NoSecondTab
    /\ loop = NoLoop

\* The same program over a store entry that another script or the user left
\* holding something that is not JSON.
InitAnyStore ==
    /\ store \in {StoreAbsent, StoreCorrupt}
    /\ badge \in {BadgeMarkup(TRUE), BadgeMarkup(FALSE)}
    /\ last = NoCall
    /\ ret = <<>>
    /\ dom = NoCartPage
    /\ tab2 = NoSecondTab
    /\ loop = NoLoop

Next ==
    \/ PageInit
    \/ \E key \in AddKeys, quantity \in AddQuantities :
          AddItem(key[1], key[2], quantity)
    \/ \E key \in ReqKeys : RemoveItem(key[1], key[2])
    \/ \E key \in ReqKeys, quantity \in UpdateQuantities :
          UpdateQuantity(key[1], key[2], quantity)

Spec == Init /\ [][Next]_vars

SpecAnyStore == InitAnyStore /\ [][Next]_vars

\* One product in two option labels and a second product, as the product page
\* requests them: the variant is an option label and the quantity the field's
\* number.
VariantKeys == {<<"p1", "Red">>, <<"p1", "Blue">>, <<"p2", "Red">>}

NextVariants ==
    \/ \E key \in VariantKeys, n \in 1..MaxQty :
          AddItem(key[1], key[2], Num(n))
    \/ \E key \in VariantKeys : RemoveItem(key[1], key[2])
    \/ \E key \in VariantKeys, n \in 0..MaxQty :
          UpdateQuantity(key[1], key[2], Num(n))

SpecVariants == Init /\ [][NextVariants]_vars

(* ------------------------- cart page actions --------------------------- *)

\* The cart page as its markup has it: no rows, the panels as the style
\* sheet shows them, the totals' texts as written in the page.
CartPageMarkup ==
    [rows |-> <<>>, empty |-> "css", content |-> "css",
     subtotal |-> MarkupText, total |-> MarkupText, event |-> NoEvent]

\* what a handler leaves of itself on the page: the control, its row and the
\* Cart call it made
Event(kind, i, c) == [kind |-> kind, row |-> i, op |-> c.op]

\* the page init leaves: the markup, rendered
LoadedPage(st) == renderCartItems([CartPageMarkup EXCEPT !.event.kind = "load"], st)

\* init on the cart page: the counter, then initCartPage renders the rows.
LoadCartPage ==
    /\ ~getCartThrows(store)
    /\ last' = Call("init", "", "", Undefined, Len(getCart(store)), FALSE)
    /\ ret' = <<>>
    /\ badge' = updateCartCounter(badge, store)
    /\ dom' = LoadedPage(store)
    /\ UNCHANGED store

CartPageLoad == LoadCartPage /\ UNCHANGED <<tab2, loop>>

\* A control of row i: the handler makes its Cart call, if any, and renders.
\* The rows take events while the panel that holds them is shown.
RowEvent(kind, i, typed) ==
    /\ dom.content = "block"
    /\ i \in 1..Len(dom.rows)
    /\ ~getCartThrows(store)
    /\ LET c == RowCall(dom, kind, i, typed)
           page == [dom EXCEPT !.event = Event(kind, i, c)]
       IN  IF c.op = "none"
           THEN /\ dom' = page
                /\ UNCHANGED <<store, badge, last, ret>>
           ELSE /\ Saved(c.op, c.id, c.variant, c.quantity, getCart(store),
                         CallCart(store, c))
                /\ dom' = renderCartItems(page, saveCartStore(CallCart(store, c)))

RowDecrease(i) == RowEvent("decrease", i, Undefined) /\ UNCHANGED <<tab2, loop>>
RowIncrease(i) == RowEvent("increase", i, Undefined) /\ UNCHANGED <<tab2, loop>>
RowEdit(i, typed) == RowEvent("change", i, typed) /\ UNCHANGED <<tab2, loop>>
RowRemove(i) == RowEvent("remove", i, Undefined) /\ UNCHANGED <<tab2, loop>>

\* the line items the product pages put into the store, each under its own
\* (id, variant): a missing option is stored as "default"
PageKeys ==
    {<<"p1", "default">>, <<"p1", "Red">>, <<"p2", "Red">>,
     <<"p3", "default">>, <<"p4", "default">>}

\* the quantities the store holds: positive numbers, or the null a NaN is
\* stored as
PageQuantities == {Null} \cup {Num(n) : n \in 1..MaxQty}

PageItem(key, quantity) == NewLineItem(Request(key[1], key[2], quantity))

\* the carts of up to MaxLen line items with distinct keys
PageCarts ==
    {cart \in UNION {[1..n -> {[key |-> k, quantity |-> q] :
                                  k \in PageKeys, q \in PageQuantities}] :
                      n \in 0..MaxLen} :
        \A i, j \in 1..Len(cart) : i # j => cart[i].key # cart[j].key}

StoredCart(cart) ==
    [i \in 1..Len(cart) |->
        [PageItem(cart[i].key, Num(1)) EXCEPT !.quantity = cart[i].quantity]]

\* what a field is left holding when it is changed
TypedValues == {NaN} \cup {Num(n) : n \in QuantityRange}

\* The cart page is opened on a store the product pages wrote.
InitCartPage ==
    /\ \E cart \in PageCarts :
          store = IF cart = <<>> THEN StoreAbsent ELSE StoreJson(StoredCart(cart))
    /\ badge = BadgeMarkup(TRUE)
    /\ last = NoCall
    /\ ret = <<>>
    /\ dom = CartPageMarkup
    /\ tab2 = NoSecondTab
    /\ loop = NoLoop

NextCartPage ==
    \/ CartPageLoad
    \/ \E i \in 1..MaxLen : RowDecrease(i)
    \/ \E i \in 1..MaxLen : RowIncrease(i)
    \/ \E i \in 1..MaxLen, typed \in TypedValues : RowEdit(i, typed)
    \/ \E i \in 1..MaxLen : RowRemove(i)

SpecCartPage == InitCartPage /\ [][NextCartPage]_vars

(* ------------------------------ two tabs ------------------------------- *)

\* Two tabs of one browser show the cart page over the same localStorage
\* entry. Each has its own document, and its own script instance whose
\* handlers run to completion one at a time.
\* the controls of a row that change its quantity
QuantityControls == {"decrease", "increase", "change"}

\* a handler of the first tab
Tab1Load == LoadCartPage /\ tab2' = [tab2 EXCEPT !.actor = 1] /\ UNCHANGED loop

Tab1Row(kind, i, typed) ==
    /\ RowEvent(kind, i, typed)
    /\ tab2' = [tab2 EXCEPT !.actor = 1]
    /\ UNCHANGED loop

\* the same handlers in the second tab, on its document
Tab2Load ==
    /\ ~getCartThrows(store)
    /\ last' = Call("init", "", "", Undefined, Len(getCart(store)), FALSE)
    /\ ret' = <<>>
    /\ tab2' = [dom |-> LoadedPage(store),
                badge |-> updateCartCounter(tab2.badge, store), actor |-> 2]
    /\ UNCHANGED <<store, badge, dom, loop>>

Tab2Row(kind, i, typed) ==
    /\ tab2.dom.content = "block"
    /\ i \in 1..Len(tab2.dom.rows)
    /\ ~getCartThrows(store)
    /\ LET c == RowCall(tab2.dom, kind, i, typed)
           page == [tab2.dom EXCEPT !.event = Event(kind, i, c)]
           result == CallCart(store, c)
       IN  IF c.op = "none"
           THEN /\ tab2' = [tab2 EXCEPT !.dom = page, !.actor = 2]
                /\ UNCHANGED <<store, last, ret>>
           ELSE /\ InBounds(result)
                /\ last' = Call(c.op, c.id, c.variant, c.quantity,
                                Len(getCart(store)), FALSE)
                /\ ret' = result
                /\ store' = saveCartStore(result)
                /\ tab2' = [dom |-> renderCartItems(page, saveCartStore(result)),
                            badge |-> saveCartBadge(tab2.badge, result),
                            actor |-> 2]
    /\ UNCHANGED <<badge, dom, loop>>

\* a product page in another tab adds a line item
TabAdd(id, variant, quantity) ==
    /\ ~getCartThrows(store)
    /\ Saved("addItem", id, variant, quantity, getCart(store),
             addItemCart(store, Request(id, variant, quantity)))
    /\ tab2' = [tab2 EXCEPT !.actor = 0]
    /\ UNCHANGED <<dom, loop>>

\* the line item both tabs show, and the one the product page adds
TabKeys == {<<"p1", "Red">>}
AddedKeys == {<<"p2", "Red">>}

\* the carts both tabs are opened on
TabCarts ==
    {cart \in UNION {[1..n -> {[key |-> k, quantity |-> Num(q)] :
                                  k \in TabKeys, q \in 1..MaxQty}] :
                      n \in 0..MaxLen} :
        \A i, j \in 1..Len(cart) : i # j => cart[i].key # cart[j].key}

InitTabs ==
    /\ \E cart \in TabCarts :
          store = IF cart = <<>> THEN StoreAbsent ELSE StoreJson(StoredCart(cart))
    /\ badge = BadgeMarkup(TRUE)
    /\ last = NoCall
    /\ ret = <<>>
    /\ dom = CartPageMarkup
    /\ tab2 = [dom |-> CartPageMarkup, badge |-> BadgeMarkup(TRUE), actor |-> 0]
    /\ loop = NoLoop

NextTabs ==
    \/ Tab1Load
    \/ Tab2Load
    \/ \E kind \in QuantityControls, i \in 1..MaxLen, n \in 1..MaxQty :
          Tab1Row(kind, i, Num(n))
    \/ \E kind \in QuantityControls, i \in 1..MaxLen, n \in 1..MaxQty :
          Tab2Row(kind, i, Num(n))
    \/ \E key \in AddedKeys : TabAdd(key[1], key[2], Num(1))

SpecTabs == InitTabs /\ [][NextTabs]_vars

(* ------------------------------ event loop ----------------------------- *)

\* One tab, handler by handler and statement by statement: an event starts
\* its handler, which loads the cart and changes it in memory, saves it, and
\* then renders or sets its feedback timers. The browser starts a handler
\* or a timer callback only when no other is running.

\* a second handler may start while one is running
CanDispatch_Reentrant(l) == Len(l.running) < 2

\* no callback is running
CanDispatch(l) == l.running = <<>>

\* the cart a Cart call saves, from the store it loads
ApplyCall(st, c) ==
    IF c.op = "addItem"
    THEN addItemCart(st, Request(c.id, c.variant, c.quantity))
    ELSE CallCart(st, c)

\* a handler that has been started: its Cart call, where it stands and the
\* cart it holds in memory
Started(c) == [call |-> c, pc |-> "load", cart |-> <<>>]

Dispatch(l, c) ==
    [l EXCEPT !.running = Append(@, Started(c)),
              !.serial = saveCartStore(ApplyCall(@, c))]

\* the products of the product page: 'product-' + Date.now() as id, no
\* option or an option label as variant
ClickKeys == {<<"p1", "default">>, <<"p2", "Red">>}

\* click on #add-to-cart
ClickAdd(id, variant, quantity) ==
    /\ loop.page = "product"
    /\ CanDispatch(loop)
    /\ loop.timers.label < MaxTimers
    /\ LET c == CartCall("addItem", id, variant, quantity)
       IN  /\ InBounds(ApplyCall(loop.serial, c))
           /\ loop' = Dispatch(loop, c)
    /\ UNCHANGED <<store, badge, last, ret, dom, tab2>>

\* click on or change of a control of row i of the cart page
ClickRow(kind, i, typed) ==
    /\ loop.page = "cart"
    /\ CanDispatch(loop)
    /\ dom.content = "block"
    /\ i \in 1..Len(dom.rows)
    /\ LET c == RowCall(dom, kind, i, typed)
       IN  /\ dom' = [dom EXCEPT !.event = Event(kind, i, c)]
           /\ IF c.op = "none"
              THEN UNCHANGED loop
              ELSE /\ InBounds(ApplyCall(loop.serial, c))
                   /\ loop' = Dispatch(loop, c)
    /\ UNCHANGED <<store, badge, last, ret, tab2>>

\* the handler's Cart call loads the store and changes the cart in memory
Load(k) ==
    /\ k \in 1..Len(loop.running)
    /\ loop.running[k].pc = "load"
    /\ ~getCartThrows(store)
    /\ LET c == loop.running[k].call
       IN  /\ last' = Call(c.op, c.id, c.variant, c.quantity, Len(getCart(store)), FALSE)
           /\ loop' = [loop EXCEPT !.running[k].pc = "save",
                                   !.running[k].cart = ApplyCall(store, c)]
    /\ UNCHANGED <<store, badge, ret, dom, tab2>>

\* saveCart, and the call returns
Save(k) ==
    /\ k \in 1..Len(loop.running)
    /\ loop.running[k].pc = "save"
    /\ store' = saveCartStore(loop.running[k].cart)
    /\ badge' = saveCartBadge(badge, loop.running[k].cart)
    /\ ret' = loop.running[k].cart
    /\ loop' = [loop EXCEPT !.running[k].pc = "after"]
    /\ UNCHANGED <<last, dom, tab2>>

\* the rest of the handler: the cart page renders; the product page shows
\* its feedback and sets the two timers that take it back
Finish(k) ==
    /\ k \in 1..Len(loop.running)
    /\ loop.running[k].pc = "after"
    /\ LET rest == [j \in 1..(Len(loop.running) - 1) |->
                       loop.running[IF j < k THEN j ELSE j + 1]]
       IN  IF loop.page = "cart"
           THEN /\ dom' = renderCartItems(dom, store)
                /\ loop' = [loop EXCEPT !.running = rest]
           ELSE /\ loop' = [loop EXCEPT !.running = rest,
                                        !.label = "Added to Cart!",
                                        !.timers = [icon |-> @.icon + 1,
                                                    label |-> @.label + 1]]
                /\ UNCHANGED dom
    /\ UNCHANGED <<store, badge, last, ret, tab2>>

\* a setTimeout callback: the icon's scale or the button's label goes back
Timer(which) ==
    /\ CanDispatch(loop)
    /\ loop.timers[which] > 0
    /\ loop' = [loop EXCEPT !.timers[which] = @ - 1,
                            !.label = IF which = "label" THEN "Add to Cart" ELSE @]
    /\ UNCHANGED <<store, badge, last, ret, dom, tab2>>

\* the tab goes to the product or the cart page: pending timers go with the
\* old page, and init runs on the new one
Navigate(page) ==
    /\ CanDispatch(loop)
    /\ ~getCartThrows(store)
    /\ loop' = [loop EXCEPT !.page = page, !.timers = [icon |-> 0, label |-> 0],
                            !.label = "Add to Cart"]
    /\ last' = Call("init", "", "", Undefined, Len(getCart(store)), FALSE)
    /\ ret' = <<>>
    /\ badge' = updateCartCounter(badge, store)
    /\ dom' = IF page = "cart" THEN LoadedPage(store) ELSE NoCartPage
    /\ UNCHANGED <<store, tab2>>

InitEvents ==
    /\ store = StoreAbsent
    /\ badge = BadgeMarkup(TRUE)
    /\ last = NoCall
    /\ ret = <<>>
    /\ dom = NoCartPage
    /\ tab2 = NoSecondTab
    /\ loop = [NoLoop EXCEPT !.page = "product"]

NextEvents ==
    \/ \E key \in ClickKeys, n \in 1..MaxQty : ClickAdd(key[1], key[2], Num(n))
    \/ \E kind \in QuantityControls \cup {"remove"}, i \in 1..MaxLen, n \in 1..MaxQty :
          ClickRow(kind, i, Num(n))
    \/ \E k \in 1..2 : Load(k)
    \/ \E k \in 1..2 : Save(k)
    \/ \E k \in 1..2 : Finish(k)
    \/ \E which \in {"icon", "label"} : Timer(which)
    \/ \E page \in {"product", "cart"} : Navigate(page)

SpecEvents == InitEvents /\ [][NextEvents]_vars

(* ----------------------------- product page ---------------------------- *)

\* The page has no #quantity field, or the field holds a text that is not a
\* number, or a number.
NoField == [t |-> "absent", n |-> 0]
NotANumber == [t |-> "text", n |-> 0]
FieldValues == {NoField, NotANumber} \cup {Num(n) : n \in 1..MaxQty}

\* quantityInput ? parseInt(quantityInput.value, 10) : 1
ClickQuantity(field) == IF field = NoField THEN Num(1) ELSE ParseInt(field)

\* the image path the handler reads, the first product's picture without one
ClickImage(id) ==
    IF StrTruthy(ProductImage(id)) THEN ProductImage(id)
    ELSE "assets/images/Product 1.jpg"

\* the product object the click handler builds
ClickProduct(id, variant, field) ==
    [Request(id, variant, ClickQuantity(field)) EXCEPT !.image = ClickImage(id)]

\* click on #add-to-cart: Cart.addItem(product). Two clicks within one tick
\* of Date.now() carry the same id.
ProductClick(id, variant, field) ==
    /\ ~getCartThrows(store)
    /\ Saved("addItem", id, variant, ClickQuantity(field), getCart(store),
             addItemCart(store, ClickProduct(id, variant, field)))
    /\ UNCHANGED <<dom, tab2, loop>>

InitProductPage ==
    /\ store = StoreAbsent
    /\ badge = BadgeMarkup(TRUE)
    /\ last = NoCall
    /\ ret = <<>>
    /\ dom = NoCartPage
    /\ tab2 = NoSecondTab
    /\ loop = NoLoop

\* the id Date.now() gives and the variant selected, click by click
ProductPageKeys == ClickKeys \cup {<<"p1", "Red">>}

NextProductPage ==
    \E key \in ProductPageKeys, field \in FieldValues : ProductClick(key[1], key[2], field)

SpecProductPage == InitProductPage /\ [][NextProductPage]_vars

(* ------------------------------ claims --------------------------------- *)

\* the stored cart, as a load returns it
Cart == getCart(store)

\* the last call was a mutation that returned
Mutated == last.op \in {"addItem", "removeItem", "updateQuantity"} /\ ~last.threw

\* the compound key (id, variant) of a line item
HasKey(item, id, variant) == item.id = id /\ item.variant = variant

\* the variant a request's variant is stored under
StoredVariant(variant) == IF variant \in {"", Absent} THEN "default" ELSE variant

KeyCount(cart, id, variant) ==
    Cardinality({i \in 1..Len(cart) : HasKey(cart[i], id, variant)})

\* the line items of cart whose key is not (id, variant), in cart's order
Others(cart, id, variant) ==
    SelectSeq(cart, LAMBDA item : ~HasKey(item, id, variant))

\* a positive integer quantity
IsPositive(q) == q.t = "num" /\ q.n >= 1

\* C1: no two line items of the stored cart have the same (id, variant).
C1_KeyUnique ==
    \A i, j \in 1..Len(Cart) :
        i # j => ~HasKey(Cart[i], Cart[j].id, Cart[j].variant)

\* C2: addItem leaves exactly one line item with the request's key (the
\* variant as it is stored); on a key that was there its quantity is the old
\* one plus the requested one, on a key that was not it is the requested
\* one, so that two additions to a cart without the key give the sum. Stated
\* for requested quantities >= 1 and stored numbers.
C2_MergeOnAdd ==
    [][(last'.op = "addItem" /\ ~last'.threw /\ IsPositive(last'.quantity)) =>
        LET id == last'.id
            variant == StoredVariant(last'.variant)
            was == {i \in 1..Len(Cart) : HasKey(Cart[i], id, variant)}
            now == {i \in 1..Len(Cart') : HasKey(Cart'[i], id, variant)}
        IN  /\ Cardinality(now) = 1
            /\ \A i \in now :
                 IF was = {}
                 THEN Cart'[i].quantity = last'.quantity
                 ELSE \A j \in was :
                        Cart[j].quantity.t = "num" =>
                          Cart'[i].quantity = Num(Cart[j].quantity.n + last'.quantity.n)
    ]_vars

\* C3: every stored line item has an integer quantity >= 1.
C3_QuantityPositive == \A i \in 1..Len(Cart) : IsPositive(Cart[i].quantity)

\* C4: after updateQuantity(id, variant, q) with q <= 0 the stored cart has
\* no line item with that key, and the returned sequence is the stored cart.
C4_RemovalOnZero ==
    (last.op = "updateQuantity" /\ ~last.threw
        /\ last.quantity.t = "num" /\ last.quantity.n <= 0) =>
    /\ KeyCount(Cart, last.id, last.variant) = 0
    /\ ret = Cart

\* updateQuantity with q <= 0 took a line item out and left another one in
C4_Witness ==
    /\ last.op = "updateQuantity" /\ ~last.threw
    /\ last.quantity.t = "num" /\ last.quantity.n <= 0
    /\ Len(Cart) < last.loaded
    /\ Len(Cart) >= 1

\* C5: updateQuantity(id, variant, q) with q > 0 sets the quantity of the
\* line item the key finds to q and changes nothing else, neither another
\* line item nor the order; without a match the cart is unchanged. So
\* [(p1, Red, 1)] updated to q > 1 holds quantity q (3 for 3), and
\* removeItem(p1, Red) then gives the empty cart.
C5_UpdateOverwrites ==
    [][/\ (last'.op = "updateQuantity" /\ ~last'.threw /\ IsPositive(last'.quantity)) =>
            IF KeyCount(Cart, last'.id, last'.variant) = 0
            THEN Cart' = Cart
            ELSE \E i \in 1..Len(Cart) :
                    /\ HasKey(Cart[i], last'.id, last'.variant)
                    /\ \A j \in 1..(i - 1) : ~HasKey(Cart[j], last'.id, last'.variant)
                    /\ Cart' = [Cart EXCEPT ![i].quantity = last'.quantity]
       /\ (/\ Len(Cart) = 1 /\ HasKey(Cart[1], "p1", "Red") /\ Cart[1].quantity = Num(1)
           /\ last'.op = "updateQuantity" /\ last'.id = "p1" /\ last'.variant = "Red"
           /\ IsPositive(last'.quantity) /\ last'.quantity.n > 1) =>
             (Len(Cart') = 1 /\ Cart'[1].quantity = last'.quantity)
       /\ (/\ Len(Cart) = 1 /\ HasKey(Cart[1], "p1", "Red") /\ IsPositive(Cart[1].quantity)
           /\ last'.op = "removeItem" /\ last'.id = "p1" /\ last'.variant = "Red") =>
             Cart' = <<>>
    ]_vars

\* updateQuantity(p1, Red, q) with q > 1 found its line item in a cart of two
C5_Witness ==
    /\ last.op = "updateQuantity" /\ ~last.threw
    /\ last.id = "p1" /\ last.variant = "Red"
    /\ IsPositive(last.quantity) /\ last.quantity.n > 1
    /\ Len(Cart) = 2
    /\ \E i \in 1..2 : HasKey(Cart[i], "p1", "Red") /\ Cart[i].quantity = last.quantity

\* C6: removeItem(id, variant) leaves exactly the line items with another
\* key, each unchanged and in the order they had; without a match the cart
\* is unchanged; it returns the stored cart and raises nothing.
C6_RemoveOnlyKey ==
    [][last'.op = "removeItem" =>
        /\ ~last'.threw
        /\ Cart' = Others(Cart, last'.id, last'.variant)
        /\ KeyCount(Cart, last'.id, last'.variant) = 0 => Cart' = Cart
        /\ ret' = Cart'
    ]_vars

\* removeItem took a line item out and left another one in
C6_Witness ==
    /\ last.op = "removeItem" /\ ~last.threw
    /\ Len(Cart) < last.loaded
    /\ Len(Cart) >= 1

\* the line items of cart at the indices in keep, in cart's order
Pick(cart, keep) ==
    [k \in 1..Cardinality(keep) |->
        cart[CHOOSE i \in keep : Cardinality({j \in keep : j <= i}) = k]]

\* the line items without their quantities
Unquantified(cart) == [i \in 1..Len(cart) |-> [cart[i] EXCEPT !.quantity = Undefined]]

\* C7: the stored cart keeps insertion order. addItem either appends one
\* line item, holding the request's id and variant, after the unchanged
\* cart, which it does whenever no line item has the request's key; or it
\* merges, changing the quantity of one line item with the request's key
\* where it stands. removeItem and updateQuantity only take line items out
\* or change a quantity: what stays keeps its order.
C7_InsertionOrder ==
    [][/\ (last'.op = "addItem" /\ ~last'.threw) =>
            /\ \/ /\ Len(Cart') = Len(Cart) + 1
                  /\ SubSeq(Cart', 1, Len(Cart)) = Cart
                  /\ HasKey(Cart'[Len(Cart')], last'.id, StoredVariant(last'.variant))
               \/ \E i \in 1..Len(Cart) :
                     /\ HasKey(Cart[i], last'.id, last'.variant)
                     /\ Cart' = [Cart EXCEPT ![i].quantity = Cart'[i].quantity]
            /\ KeyCount(Cart, last'.id, StoredVariant(last'.variant)) = 0 =>
                  Len(Cart') = Len(Cart) + 1
       /\ (last'.op \in {"removeItem", "updateQuantity"} /\ ~last'.threw) =>
            \E keep \in SUBSET (1..Len(Cart)) :
                Unquantified(Cart') = Unquantified(Pick(Cart, keep))
    ]_vars

\* addItem merged into the first of two line items, which stayed first
C7_Witness ==
    /\ last.op = "addItem" /\ ~last.threw
    /\ last.loaded = 2 /\ Len(Cart) = 2
    /\ HasKey(Cart[1], last.id, last.variant)
    /\ ~HasKey(Cart[2], last.id, last.variant)

\* C8: a load never fails, so no call throws, whatever the store holds.
C8_LoadNeverFails == ~last.threw

\* C9: when a mutation returns, the store holds the sequence it returned: a
\* load yields the returned sequence.
C9_StoreHoldsReturned == Mutated => Cart = ret

\* C10: where the badge exists, after init and after every mutation its text
\* is the total quantity of the stored cart, and it is hidden exactly when
\* that total is 0 and shown exactly when it is > 0; where it does not
\* exist nothing is rendered.
C10_BadgeFollowsTotal ==
    /\ (badge.exists /\ last.op # "none" /\ ~last.threw) =>
          /\ badge.text = getTotalQuantity(store)
          /\ badge.display = "none" <=> getTotalQuantity(store) = Num(0)
          /\ badge.display = "flex" <=> GreaterThanZero(getTotalQuantity(store))
    /\ ~badge.exists => badge = BadgeMarkup(FALSE)

\* C11: line items that differ in the variant never merge. addItem, removeItem
\* and updateQuantity on (id, variant) leave every line item with another
\* key, the same id in another variant included, as it was and in its
\* order, and addItem on a key that is not there appends. So (p1, Blue, 1)
\* added to [(p1, Red, 1)] gives two line items and a total quantity of 2.
C11_VariantsNeverMerge ==
    [][/\ Mutated' =>
            Others(Cart', last'.id, last'.variant) = Others(Cart, last'.id, last'.variant)
       /\ (last'.op = "addItem" /\ KeyCount(Cart, last'.id, last'.variant) = 0) =>
            /\ Len(Cart') = Len(Cart) + 1
            /\ HasKey(Cart'[Len(Cart')], last'.id, last'.variant)
            /\ Cart'[Len(Cart')].quantity = last'.quantity
       /\ (/\ Len(Cart) = 1 /\ HasKey(Cart[1], "p1", "Red") /\ Cart[1].quantity = Num(1)
           /\ last'.op = "addItem" /\ last'.id = "p1" /\ last'.variant = "Blue"
           /\ last'.quantity = Num(1)) =>
            /\ Len(Cart') = 2
            /\ HasKey(Cart'[1], "p1", "Red") /\ HasKey(Cart'[2], "p1", "Blue")
            /\ getTotalQuantity(store') = Num(2)
    ]_vars

\* (p1, Blue, 1) was added after (p1, Red, 1): two line items, 2 in total
C11_Witness ==
    /\ last.op = "addItem" /\ last.id = "p1" /\ last.variant = "Blue"
    /\ last.quantity = Num(1) /\ last.loaded = 1
    /\ Len(Cart) = 2
    /\ HasKey(Cart[1], "p1", "Red") /\ Cart[1].quantity = Num(1)
    /\ HasKey(Cart[2], "p1", "Blue") /\ Cart[2].quantity = Num(1)
    /\ getTotalQuantity(store) = Num(2)

\* C13: saving what a load returns leaves the store semantically as it was:
\* the cart loaded afterwards is the one loaded before, a store that held a
\* saved cart holds the same value, and saving a second time writes what the
\* first save wrote. updateQuantity on a key that finds nothing is such a
\* save of the loaded cart: the store then holds the cart that was loaded.
C13_RoundTrip ==
    LET once == saveCartStore(getCart(store))
        twice == saveCartStore(getCart(once))
    IN  /\ getCart(once) = getCart(store)
        /\ store.k = "json" => once = store
        /\ twice = once
        /\ (/\ last.op = "updateQuantity" /\ ~last.threw
            /\ KeyCount(Cart, last.id, last.variant) = 0
            /\ last.loaded = Len(Cart)) =>
               /\ Cart = ret
               /\ store = saveCartStore(ret)

\* updateQuantity found no line item and saved the cart it had loaded, which
\* holds a quantity stored as null next to a number
C13_Witness ==
    /\ last.op = "updateQuantity" /\ ~last.threw
    /\ KeyCount(Cart, last.id, last.variant) = 0
    /\ last.loaded = 2 /\ Len(Cart) = 2
    /\ \E i, j \in 1..2 : Cart[i].quantity = Null /\ Cart[j].quantity.t = "num"

\* a price with the leading currency symbol and every "," taken out, in cents
ParsePrice(price) ==
    LET chars == PriceChars(price)
        bare == IF chars # <<>> /\ ~IsDigit(Head(chars)) THEN Tail(chars) ELSE chars
    IN  parseFloat(SelectSeq(bare, LAMBDA c : c # ","))

\* the sum of ParsePrice(price) * quantity over the line items, in cents
RECURSIVE PriceSum(_)
PriceSum(cart) ==
    IF cart = <<>> THEN 0
    ELSE ParsePrice(Head(cart).price).n * Head(cart).quantity.n + PriceSum(Tail(cart))

\* a control of a row has made a Cart call and rendered
RowMutated == dom.event.kind \in {"decrease", "increase", "change", "remove"}
                 /\ dom.event.op # "none"

\* the page has rendered the stored cart's rows
RowsRendered == dom.event.kind # "none" /\ Len(Cart) > 0

\* C12: the subtotal is the sum over the line items of the price, its
\* currency symbol and all its "," taken out, times the quantity: 1270.50
\* for "$10.00" x 2 and "$1,250.50" x 1, and "$1,250,000.00" at its full
\* value. Stated in cents, for stored quantities >= 1.
C12_SubtotalParsesPrices ==
    (RowsRendered /\ \A i \in 1..Len(Cart) : IsPositive(Cart[i].quantity)) =>
        /\ getSubtotal(store) = Num(PriceSum(Cart))
        /\ dom.subtotal = Money(Num(PriceSum(Cart)))

\* C14: once the page has rendered, the empty panel is shown and the content
\* panel hidden exactly when the stored cart has no line item, and the
\* other way round when it has one; after the page's load and after every
\* row control.
C14_PanelsFollowCart ==
    dom.event.kind # "none" =>
        /\ Len(Cart) = 0 <=> (dom.empty = "block" /\ dom.content = "none")
        /\ Len(Cart) # 0 <=> (dom.empty = "none" /\ dom.content = "block")

\* the remove button of the only row emptied the cart: the empty panel shows
C14_Witness ==
    /\ dom.event.kind = "remove" /\ last.op = "removeItem" /\ last.loaded = 1
    /\ Len(Cart) = 0
    /\ dom.empty = "block" /\ dom.content = "none"

\* C15: after every row mutation and its render the rows are the stored line
\* items, one for one and in order, each with its item's key and current
\* quantity; after the last line item is removed there is no row.
C15_RowsFollowCart ==
    RowMutated =>
        /\ Len(dom.rows) = Len(Cart)
        /\ \A i \in 1..Len(dom.rows) :
              /\ HasKey(Cart[i], dom.rows[i].id, dom.rows[i].variant)
              /\ dom.rows[i].value = Cart[i].quantity

\* C16: after every row mutation the displayed subtotal and total are both
\* the stored cart's subtotal in two decimals, 0 after the last line item
\* is removed.
C16_TotalsFollowCart ==
    RowMutated =>
        /\ dom.subtotal = Money(getSubtotal(store))
        /\ dom.total = Money(getSubtotal(store))
        /\ Len(Cart) = 0 => dom.total = Money(Num(0))

\* C19: a rendered row shows item.image whenever that is not empty; the
\* mapping from the name's keyword applies only when item.image is empty.
C19_ImageBeforeKeyword ==
    RowsRendered =>
        \A i \in 1..Len(Cart) :
            Cart[i].image # "" => dom.rows[i].image = Cart[i].image

\* the index of the line item with the key of row i of the page
ItemOfRow(i) ==
    CHOOSE k \in 1..Len(Cart) : HasKey(Cart[k], dom.rows[i].id, dom.rows[i].variant)

Actor == tab2'.actor
ActorPage == IF Actor = 1 THEN dom ELSE tab2.dom
ActorEvent == IF Actor = 1 THEN dom'.event ELSE tab2'.dom.event

\* C18: across tabs the last write wins. A row quantity change writes the
\* value computed from the quantity its own tab has rendered (that plus 1 for
\* an increase, minus 1 for a decrease), whatever the store holds by then:
\* the stored quantity afterwards is that value alone, so two tabs that
\* both increase from q leave q + 1. It raises nothing, and every other line
\* item of the store as it loads it, those another tab added or changed
\* included, stays as it is.
C18_LastWriteWins ==
    [][(Actor \in {1, 2} /\ ActorEvent.kind \in QuantityControls
            /\ ActorEvent.op = "updateQuantity") =>
        LET row == ActorPage.rows[ActorEvent.row]
            q == row.value.n
            written == last'.quantity
        IN  /\ ~last'.threw
            /\ last'.op = "updateQuantity"
            /\ last'.id = row.id /\ last'.variant = row.variant
            /\ ActorEvent.kind = "increase" => written = Num(q + 1)
            /\ ActorEvent.kind = "decrease" => written = Num(q - 1)
            /\ Others(Cart', row.id, row.variant) = Others(Cart, row.id, row.variant)
            /\ Len(Cart') = Len(Cart)
            /\ \A k \in 1..Len(Cart) :
                  HasKey(Cart[k], row.id, row.variant) =>
                     Cart' = [Cart EXCEPT ![k].quantity = written]
    ]_vars

\* both tabs rendered (p1, Red) at 1 and each increased it: the store holds
\* 2, next to the line item a product page added in between
C18_Witness ==
    /\ dom.event.kind = "increase" /\ tab2.dom.event.kind = "increase"
    /\ tab2.actor = 2
    /\ Len(dom.rows) = 1 /\ dom.rows[1].value = Num(2)
    /\ HasKey(dom.rows[1], "p1", "Red")
    /\ Len(Cart) = 2
    /\ HasKey(Cart[1], "p1", "Red") /\ Cart[1].quantity = Num(2)
    /\ HasKey(Cart[2], "p2", "Red")
    /\ tab2.dom.rows = [i \in 1..2 |-> Row(Cart[i])]

\* C17: within one tab every mutation is one uninterrupted read-modify-write
\* inside one callback, so for any sequence of product-page additions, row
\* increases, decreases, edits and removals and timer callbacks no update is
\* lost: whenever no handler is running the store is what applying the
\* events one after the other, in the order they came, gives.
C17_NoLostUpdate ==
    /\ ~last.threw
    /\ loop.running = <<>> => store = loop.serial

\* two products were added on the product page and the first one's row
\* increased on the cart page; no handler is running
C17_Witness ==
    /\ loop.page = "cart" /\ loop.running = <<>>
    /\ dom.event = [kind |-> "increase", row |-> 1, op |-> "updateQuantity"]
    /\ last.op = "updateQuantity"
    /\ Len(Cart) = 2
    /\ Cart[1].quantity = Num(2) /\ Cart[2].quantity = Num(1)
    /\ dom.rows = [i \in 1..2 |-> Row(Cart[i])]
    /\ store = loop.serial

\* C21: every add-to-cart click of the product page raises the cart's total
\* quantity by the number in the quantity field, or by exactly 1 when the
\* field is absent or holds no number, both when the click inserts a line
\* item and when it merges into one with the same id and variant. Stated
\* for carts whose stored quantities are integers >= 1.
C21_ClickAddsFieldQuantity ==
    [][(last'.op = "addItem" /\ \A i \in 1..Len(Cart) : IsPositive(Cart[i].quantity)) =>
        LET added == IF last'.quantity.t = "num" THEN last'.quantity.n ELSE 1
        IN  getTotalQuantity(store') = Num(getTotalQuantity(store).n + added)
    ]_vars

====
